---- MODULE Spec2Model ----
(***************************************************************************)
(* Model of the UI navigation and input-resolution engine of the kanban    *)
(* application: the key-binding table (src/app/state.rs, KeyBindings), the *)
(* UiMode registry and the Focus ring (src/app/state.rs, UiMode, Focus),   *)
(* and the key normalizer (src/inputs/key.rs, Key).                        *)
(***************************************************************************)
EXTENDS Integers, Sequences, FiniteSets, TLC

VARIABLES
    kb,      \* the KeyBindings struct: one Vec<Key> per field
    kbOp,    \* the last call made on the table, with its arguments and result
    mode,    \* app.state.ui_mode
    focus,   \* app.state.focus
    from,    \* the focus the last Focus::next / Focus::prev was called on
    fop,     \* the last focus operation: "init", "set_mode", "next" or "prev"
    fprev,   \* the focus operation before the last one
    origin,  \* the focus at the start of the current run of equal steps
    count,   \* the number of steps of the current run
    pin,     \* the input handed to a pure function
    pfn,     \* the pure function applied last
    pout     \* its outcome

kbVars == <<kb, kbOp>>
focusVars == <<mode, focus, from, fop, fprev, origin, count>>
pureVars == <<pin, pfn, pout>>
vars == <<kb, kbOp, mode, focus, from, fop, fprev, origin, count, pin, pfn, pout>>

(***************************************************************************)
(* Values.  Option<T> is <<"None">> or <<"Some", x>>.  A Key is a tuple:   *)
(* <<variant>> for a unit variant, <<variant, c>> for Char, Ctrl and Alt.  *)
(***************************************************************************)
None == <<"None">>
Some(x) == <<"Some", x>>

Named(n) == <<n>>
Char(c) == <<"Char", c>>
Ctrl(c) == <<"Ctrl", c>>
Alt(c) == <<"Alt", c>>

Contains(s, x) == \E i \in 1..Len(s) : s[i] = x

(***************************************************************************)
(* KeyBindings                                                             *)
(***************************************************************************)
\* The fields of the struct, in declaration order.
KeyBindingsFields ==
    <<"quit",
      "open_config_menu",
      "up",
      "down",
      "right",
      "left",
      "next_focus",
      "prev_focus",
      "take_user_input",
      "stop_user_input",
      "hide_ui_element",
      "save_state",
      "new_board",
      "new_card",
      "delete_board",
      "delete_card",
      "change_card_status_to_completed",
      "change_card_status_to_active",
      "change_card_status_to_stale",
      "reset_ui",
      "go_to_main_menu",
      "toggle_command_palette",
      "clear_all_toasts",
      "undo",
      "redo">>

\* The default table with delete_board on the lower-case letter of delete_card.
KeyBindings_default_lowercase_d ==
    [ quit |-> <<Ctrl("c"), Char("q")>>,
      next_focus |-> <<Named("Tab")>>,
      prev_focus |-> <<Named("BackTab")>>,
      open_config_menu |-> <<Char("c")>>,
      up |-> <<Named("Up")>>,
      down |-> <<Named("Down")>>,
      right |-> <<Named("Right")>>,
      left |-> <<Named("Left")>>,
      take_user_input |-> <<Char("i")>>,
      stop_user_input |-> <<Named("Ins")>>,
      hide_ui_element |-> <<Char("h")>>,
      save_state |-> <<Ctrl("s")>>,
      new_board |-> <<Char("b")>>,
      new_card |-> <<Char("n")>>,
      delete_card |-> <<Char("d")>>,
      delete_board |-> <<Char("d")>>,
      change_card_status_to_completed |-> <<Char("1")>>,
      change_card_status_to_active |-> <<Char("2")>>,
      change_card_status_to_stale |-> <<Char("3")>>,
      reset_ui |-> <<Char("r")>>,
      go_to_main_menu |-> <<Char("m")>>,
      toggle_command_palette |-> <<Ctrl("p")>>,
      clear_all_toasts |-> <<Char("t")>>,
      undo |-> <<Ctrl("z")>>,
      redo |-> <<Ctrl("y")>> ]

\* impl Default for KeyBindings
KeyBindings_default ==
    [ quit |-> <<Ctrl("c"), Char("q")>>,
      next_focus |-> <<Named("Tab")>>,
      prev_focus |-> <<Named("BackTab")>>,
      open_config_menu |-> <<Char("c")>>,
      up |-> <<Named("Up")>>,
      down |-> <<Named("Down")>>,
      right |-> <<Named("Right")>>,
      left |-> <<Named("Left")>>,
      take_user_input |-> <<Char("i")>>,
      stop_user_input |-> <<Named("Ins")>>,
      hide_ui_element |-> <<Char("h")>>,
      save_state |-> <<Ctrl("s")>>,
      new_board |-> <<Char("b")>>,
      new_card |-> <<Char("n")>>,
      delete_card |-> <<Char("d")>>,
      delete_board |-> <<Char("D")>>,
      change_card_status_to_completed |-> <<Char("1")>>,
      change_card_status_to_active |-> <<Char("2")>>,
      change_card_status_to_stale |-> <<Char("3")>>,
      reset_ui |-> <<Char("r")>>,
      go_to_main_menu |-> <<Char("m")>>,
      toggle_command_palette |-> <<Ctrl("p")>>,
      clear_all_toasts |-> <<Char("t")>>,
      undo |-> <<Ctrl("z")>>,
      redo |-> <<Ctrl("y")>> ]

\* iter() walking the table from its last entry to its first.
iter_reversed(self) ==
    << <<"redo", self.redo>>,
       <<"undo", self.undo>>,
       <<"clear_all_toasts", self.clear_all_toasts>>,
       <<"toggle_command_palette", self.toggle_command_palette>>,
       <<"go_to_main_menu", self.go_to_main_menu>>,
       <<"reset_ui", self.reset_ui>>,
       <<"change_card_status_to_stale", self.change_card_status_to_stale>>,
       <<"change_card_status_to_active", self.change_card_status_to_active>>,
       <<"change_card_status_to_completed", self.change_card_status_to_completed>>,
       <<"delete_board", self.delete_board>>,
       <<"delete_card", self.delete_card>>,
       <<"new_card", self.new_card>>,
       <<"new_board", self.new_board>>,
       <<"save_state", self.save_state>>,
       <<"hide_ui_element", self.hide_ui_element>>,
       <<"stop_user_input", self.stop_user_input>>,
       <<"take_user_input", self.take_user_input>>,
       <<"left", self.left>>,
       <<"right", self.right>>,
       <<"down", self.down>>,
       <<"up", self.up>>,
       <<"open_config_menu", self.open_config_menu>>,
       <<"prev_focus", self.prev_focus>>,
       <<"next_focus", self.next_focus>>,
       <<"quit", self.quit>> >>

\* KeyBindings::iter: the (name, keys) pairs in the order the vec! lists them.
iter(self) ==
    << <<"quit", self.quit>>,
       <<"next_focus", self.next_focus>>,
       <<"prev_focus", self.prev_focus>>,
       <<"open_config_menu", self.open_config_menu>>,
       <<"up", self.up>>,
       <<"down", self.down>>,
       <<"right", self.right>>,
       <<"left", self.left>>,
       <<"take_user_input", self.take_user_input>>,
       <<"stop_user_input", self.stop_user_input>>,
       <<"hide_ui_element", self.hide_ui_element>>,
       <<"save_state", self.save_state>>,
       <<"new_board", self.new_board>>,
       <<"new_card", self.new_card>>,
       <<"delete_card", self.delete_card>>,
       <<"delete_board", self.delete_board>>,
       <<"change_card_status_to_completed", self.change_card_status_to_completed>>,
       <<"change_card_status_to_active", self.change_card_status_to_active>>,
       <<"change_card_status_to_stale", self.change_card_status_to_stale>>,
       <<"reset_ui", self.reset_ui>>,
       <<"go_to_main_menu", self.go_to_main_menu>>,
       <<"toggle_command_palette", self.toggle_command_palette>>,
       <<"clear_all_toasts", self.clear_all_toasts>>,
       <<"undo", self.undo>>,
       <<"redo", self.redo>> >>

\* The match without the arms of undo and redo: both fall through to None.
key_to_action_match_without_undo_redo(action) ==
    CASE action = "quit" -> Some("Quit")
      [] action = "next_focus" -> Some("NextFocus")
      [] action = "prev_focus" -> Some("PrvFocus")
      [] action = "open_config_menu" -> Some("OpenConfigMenu")
      [] action = "up" -> Some("Up")
      [] action = "down" -> Some("Down")
      [] action = "right" -> Some("Right")
      [] action = "left" -> Some("Left")
      [] action = "take_user_input" -> Some("TakeUserInput")
      [] action = "stop_user_input" -> Some("StopUserInput")
      [] action = "hide_ui_element" -> Some("HideUiElement")
      [] action = "save_state" -> Some("SaveState")
      [] action = "new_board" -> Some("NewBoard")
      [] action = "new_card" -> Some("NewCard")
      [] action = "delete_card" -> Some("DeleteCard")
      [] action = "delete_board" -> Some("DeleteBoard")
      [] action = "change_card_status_to_completed" -> Some("ChangeCardStatusToCompleted")
      [] action = "change_card_status_to_active" -> Some("ChangeCardStatusToActive")
      [] action = "change_card_status_to_stale" -> Some("ChangeCardStatusToStale")
      [] action = "reset_ui" -> Some("ResetUI")
      [] action = "go_to_main_menu" -> Some("GoToMainMenu")
      [] action = "toggle_command_palette" -> Some("ToggleCommandPalette")
      [] action = "clear_all_toasts" -> Some("ClearAllToasts")
      [] OTHER -> None

\* The match inside key_to_action's loop body.
key_to_action_match(action) ==
    CASE action = "quit" -> Some("Quit")
      [] action = "next_focus" -> Some("NextFocus")
      [] action = "prev_focus" -> Some("PrvFocus")
      [] action = "open_config_menu" -> Some("OpenConfigMenu")
      [] action = "up" -> Some("Up")
      [] action = "down" -> Some("Down")
      [] action = "right" -> Some("Right")
      [] action = "left" -> Some("Left")
      [] action = "take_user_input" -> Some("TakeUserInput")
      [] action = "stop_user_input" -> Some("StopUserInput")
      [] action = "hide_ui_element" -> Some("HideUiElement")
      [] action = "save_state" -> Some("SaveState")
      [] action = "new_board" -> Some("NewBoard")
      [] action = "new_card" -> Some("NewCard")
      [] action = "delete_card" -> Some("DeleteCard")
      [] action = "delete_board" -> Some("DeleteBoard")
      [] action = "change_card_status_to_completed" -> Some("ChangeCardStatusToCompleted")
      [] action = "change_card_status_to_active" -> Some("ChangeCardStatusToActive")
      [] action = "change_card_status_to_stale" -> Some("ChangeCardStatusToStale")
      [] action = "reset_ui" -> Some("ResetUI")
      [] action = "go_to_main_menu" -> Some("GoToMainMenu")
      [] action = "toggle_command_palette" -> Some("ToggleCommandPalette")
      [] action = "clear_all_toasts" -> Some("ClearAllToasts")
      [] action = "undo" -> Some("Undo")
      [] action = "redo" -> Some("Redo")
      [] OTHER -> None

\* KeyBindings::key_to_action: the first pair of iter() whose keys contain key
\* decides; the loop returns from inside the match, so a later pair is never
\* looked at.
key_to_action(self, key) ==
    LET pairs == iter(self)
        hits == {i \in 1..Len(pairs) : Contains(pairs[i][2], key)}
    IN  IF hits = {} THEN None
        ELSE LET first == CHOOSE i \in hits : \A j \in hits : i <= j
             IN  key_to_action_match(pairs[first][1])

\* str_to_action whose prev_focus arm repeats the action of next_focus.
str_to_action_repeated_arm(self, action) ==
    CASE action = "quit" -> Some("Quit")
      [] action = "next_focus" -> Some("NextFocus")
      [] action = "prev_focus" -> Some("NextFocus")
      [] action = "open_config_menu" -> Some("OpenConfigMenu")
      [] action = "up" -> Some("Up")
      [] action = "down" -> Some("Down")
      [] action = "right" -> Some("Right")
      [] action = "left" -> Some("Left")
      [] action = "take_user_input" -> Some("TakeUserInput")
      [] action = "stop_user_input" -> Some("StopUserInput")
      [] action = "hide_ui_element" -> Some("HideUiElement")
      [] action = "save_state" -> Some("SaveState")
      [] action = "new_board" -> Some("NewBoard")
      [] action = "new_card" -> Some("NewCard")
      [] action = "delete_card" -> Some("DeleteCard")
      [] action = "delete_board" -> Some("DeleteBoard")
      [] action = "change_card_status_to_completed" -> Some("ChangeCardStatusToCompleted")
      [] action = "change_card_status_to_active" -> Some("ChangeCardStatusToActive")
      [] action = "change_card_status_to_stale" -> Some("ChangeCardStatusToStale")
      [] action = "reset_ui" -> Some("ResetUI")
      [] action = "go_to_main_menu" -> Some("GoToMainMenu")
      [] action = "toggle_command_palette" -> Some("ToggleCommandPalette")
      [] action = "clear_all_toasts" -> Some("ClearAllToasts")
      [] action = "undo" -> Some("Undo")
      [] action = "redo" -> Some("Redo")
      [] OTHER -> None

\* KeyBindings::str_to_action
str_to_action(self, action) ==
    CASE action = "quit" -> Some("Quit")
      [] action = "next_focus" -> Some("NextFocus")
      [] action = "prev_focus" -> Some("PrvFocus")
      [] action = "open_config_menu" -> Some("OpenConfigMenu")
      [] action = "up" -> Some("Up")
      [] action = "down" -> Some("Down")
      [] action = "right" -> Some("Right")
      [] action = "left" -> Some("Left")
      [] action = "take_user_input" -> Some("TakeUserInput")
      [] action = "stop_user_input" -> Some("StopUserInput")
      [] action = "hide_ui_element" -> Some("HideUiElement")
      [] action = "save_state" -> Some("SaveState")
      [] action = "new_board" -> Some("NewBoard")
      [] action = "new_card" -> Some("NewCard")
      [] action = "delete_card" -> Some("DeleteCard")
      [] action = "delete_board" -> Some("DeleteBoard")
      [] action = "change_card_status_to_completed" -> Some("ChangeCardStatusToCompleted")
      [] action = "change_card_status_to_active" -> Some("ChangeCardStatusToActive")
      [] action = "change_card_status_to_stale" -> Some("ChangeCardStatusToStale")
      [] action = "reset_ui" -> Some("ResetUI")
      [] action = "go_to_main_menu" -> Some("GoToMainMenu")
      [] action = "toggle_command_palette" -> Some("ToggleCommandPalette")
      [] action = "clear_all_toasts" -> Some("ClearAllToasts")
      [] action = "undo" -> Some("Undo")
      [] action = "redo" -> Some("Redo")
      [] OTHER -> None

\* Vec::dedup: removes consecutive repeated elements only.
RECURSIVE dedup(_)
dedup(v) ==
    IF Len(v) < 2 THEN v
    ELSE IF v[1] = v[2] THEN dedup(Tail(v))
    ELSE <<v[1]>> \o dedup(Tail(v))

\* edit_keybinding whose fall-through arm stores the keys under the first field.
edit_keybinding_fallback_stores(self, key, keybinding) ==
    LET deduped == dedup(keybinding) IN
    CASE key = "quit" -> [self EXCEPT !.quit = deduped]
      [] key = "next_focus" -> [self EXCEPT !.next_focus = deduped]
      [] key = "prev_focus" -> [self EXCEPT !.prev_focus = deduped]
      [] key = "open_config_menu" -> [self EXCEPT !.open_config_menu = deduped]
      [] key = "up" -> [self EXCEPT !.up = deduped]
      [] key = "down" -> [self EXCEPT !.down = deduped]
      [] key = "right" -> [self EXCEPT !.right = deduped]
      [] key = "left" -> [self EXCEPT !.left = deduped]
      [] key = "take_user_input" -> [self EXCEPT !.take_user_input = deduped]
      [] key = "stop_user_input" -> [self EXCEPT !.stop_user_input = deduped]
      [] key = "hide_ui_element" -> [self EXCEPT !.hide_ui_element = deduped]
      [] key = "save_state" -> [self EXCEPT !.save_state = deduped]
      [] key = "new_board" -> [self EXCEPT !.new_board = deduped]
      [] key = "new_card" -> [self EXCEPT !.new_card = deduped]
      [] key = "delete_card" -> [self EXCEPT !.delete_card = deduped]
      [] key = "delete_board" -> [self EXCEPT !.delete_board = deduped]
      [] key = "change_card_status_to_completed" -> [self EXCEPT !.change_card_status_to_completed = deduped]
      [] key = "change_card_status_to_active" -> [self EXCEPT !.change_card_status_to_active = deduped]
      [] key = "change_card_status_to_stale" -> [self EXCEPT !.change_card_status_to_stale = deduped]
      [] key = "reset_ui" -> [self EXCEPT !.reset_ui = deduped]
      [] key = "go_to_main_menu" -> [self EXCEPT !.go_to_main_menu = deduped]
      [] key = "toggle_command_palette" -> [self EXCEPT !.toggle_command_palette = deduped]
      [] key = "clear_all_toasts" -> [self EXCEPT !.clear_all_toasts = deduped]
      [] key = "undo" -> [self EXCEPT !.undo = deduped]
      [] key = "redo" -> [self EXCEPT !.redo = deduped]
      [] OTHER -> [self EXCEPT !.quit = deduped]

\* edit_keybinding whose quit arm assigns the field declared after quit.
edit_keybinding_quit_writes_next_field(self, key, keybinding) ==
    LET deduped == dedup(keybinding) IN
    CASE key = "quit" -> [self EXCEPT !.open_config_menu = deduped]
      [] key = "next_focus" -> [self EXCEPT !.next_focus = deduped]
      [] key = "prev_focus" -> [self EXCEPT !.prev_focus = deduped]
      [] key = "open_config_menu" -> [self EXCEPT !.open_config_menu = deduped]
      [] key = "up" -> [self EXCEPT !.up = deduped]
      [] key = "down" -> [self EXCEPT !.down = deduped]
      [] key = "right" -> [self EXCEPT !.right = deduped]
      [] key = "left" -> [self EXCEPT !.left = deduped]
      [] key = "take_user_input" -> [self EXCEPT !.take_user_input = deduped]
      [] key = "stop_user_input" -> [self EXCEPT !.stop_user_input = deduped]
      [] key = "hide_ui_element" -> [self EXCEPT !.hide_ui_element = deduped]
      [] key = "save_state" -> [self EXCEPT !.save_state = deduped]
      [] key = "new_board" -> [self EXCEPT !.new_board = deduped]
      [] key = "new_card" -> [self EXCEPT !.new_card = deduped]
      [] key = "delete_card" -> [self EXCEPT !.delete_card = deduped]
      [] key = "delete_board" -> [self EXCEPT !.delete_board = deduped]
      [] key = "change_card_status_to_completed" -> [self EXCEPT !.change_card_status_to_completed = deduped]
      [] key = "change_card_status_to_active" -> [self EXCEPT !.change_card_status_to_active = deduped]
      [] key = "change_card_status_to_stale" -> [self EXCEPT !.change_card_status_to_stale = deduped]
      [] key = "reset_ui" -> [self EXCEPT !.reset_ui = deduped]
      [] key = "go_to_main_menu" -> [self EXCEPT !.go_to_main_menu = deduped]
      [] key = "toggle_command_palette" -> [self EXCEPT !.toggle_command_palette = deduped]
      [] key = "clear_all_toasts" -> [self EXCEPT !.clear_all_toasts = deduped]
      [] key = "undo" -> [self EXCEPT !.undo = deduped]
      [] key = "redo" -> [self EXCEPT !.redo = deduped]
      [] OTHER -> self

\* edit_keybinding whose undo arm assigns the list to redo as well.
edit_keybinding_undo_writes_redo_too(self, key, keybinding) ==
    LET deduped == dedup(keybinding) IN
    CASE key = "quit" -> [self EXCEPT !.quit = deduped]
      [] key = "next_focus" -> [self EXCEPT !.next_focus = deduped]
      [] key = "prev_focus" -> [self EXCEPT !.prev_focus = deduped]
      [] key = "open_config_menu" -> [self EXCEPT !.open_config_menu = deduped]
      [] key = "up" -> [self EXCEPT !.up = deduped]
      [] key = "down" -> [self EXCEPT !.down = deduped]
      [] key = "right" -> [self EXCEPT !.right = deduped]
      [] key = "left" -> [self EXCEPT !.left = deduped]
      [] key = "take_user_input" -> [self EXCEPT !.take_user_input = deduped]
      [] key = "stop_user_input" -> [self EXCEPT !.stop_user_input = deduped]
      [] key = "hide_ui_element" -> [self EXCEPT !.hide_ui_element = deduped]
      [] key = "save_state" -> [self EXCEPT !.save_state = deduped]
      [] key = "new_board" -> [self EXCEPT !.new_board = deduped]
      [] key = "new_card" -> [self EXCEPT !.new_card = deduped]
      [] key = "delete_card" -> [self EXCEPT !.delete_card = deduped]
      [] key = "delete_board" -> [self EXCEPT !.delete_board = deduped]
      [] key = "change_card_status_to_completed" -> [self EXCEPT !.change_card_status_to_completed = deduped]
      [] key = "change_card_status_to_active" -> [self EXCEPT !.change_card_status_to_active = deduped]
      [] key = "change_card_status_to_stale" -> [self EXCEPT !.change_card_status_to_stale = deduped]
      [] key = "reset_ui" -> [self EXCEPT !.reset_ui = deduped]
      [] key = "go_to_main_menu" -> [self EXCEPT !.go_to_main_menu = deduped]
      [] key = "toggle_command_palette" -> [self EXCEPT !.toggle_command_palette = deduped]
      [] key = "clear_all_toasts" -> [self EXCEPT !.clear_all_toasts = deduped]
      [] key = "undo" -> [self EXCEPT !.undo = deduped, !.redo = deduped]
      [] key = "redo" -> [self EXCEPT !.redo = deduped]
      [] OTHER -> self

\* KeyBindings::edit_keybinding: the table after the call.
edit_keybinding(self, key, keybinding) ==
    LET deduped == dedup(keybinding) IN
    CASE key = "quit" -> [self EXCEPT !.quit = deduped]
      [] key = "next_focus" -> [self EXCEPT !.next_focus = deduped]
      [] key = "prev_focus" -> [self EXCEPT !.prev_focus = deduped]
      [] key = "open_config_menu" -> [self EXCEPT !.open_config_menu = deduped]
      [] key = "up" -> [self EXCEPT !.up = deduped]
      [] key = "down" -> [self EXCEPT !.down = deduped]
      [] key = "right" -> [self EXCEPT !.right = deduped]
      [] key = "left" -> [self EXCEPT !.left = deduped]
      [] key = "take_user_input" -> [self EXCEPT !.take_user_input = deduped]
      [] key = "stop_user_input" -> [self EXCEPT !.stop_user_input = deduped]
      [] key = "hide_ui_element" -> [self EXCEPT !.hide_ui_element = deduped]
      [] key = "save_state" -> [self EXCEPT !.save_state = deduped]
      [] key = "new_board" -> [self EXCEPT !.new_board = deduped]
      [] key = "new_card" -> [self EXCEPT !.new_card = deduped]
      [] key = "delete_card" -> [self EXCEPT !.delete_card = deduped]
      [] key = "delete_board" -> [self EXCEPT !.delete_board = deduped]
      [] key = "change_card_status_to_completed" -> [self EXCEPT !.change_card_status_to_completed = deduped]
      [] key = "change_card_status_to_active" -> [self EXCEPT !.change_card_status_to_active = deduped]
      [] key = "change_card_status_to_stale" -> [self EXCEPT !.change_card_status_to_stale = deduped]
      [] key = "reset_ui" -> [self EXCEPT !.reset_ui = deduped]
      [] key = "go_to_main_menu" -> [self EXCEPT !.go_to_main_menu = deduped]
      [] key = "toggle_command_palette" -> [self EXCEPT !.toggle_command_palette = deduped]
      [] key = "clear_all_toasts" -> [self EXCEPT !.clear_all_toasts = deduped]
      [] key = "undo" -> [self EXCEPT !.undo = deduped]
      [] key = "redo" -> [self EXCEPT !.redo = deduped]
      [] OTHER -> self

\* get_keybinding whose undo arm hands out the list of redo.
get_keybinding_undo_reads_redo(self, action) ==
    CASE action = "quit" -> Some(self.quit)
      [] action = "next_focus" -> Some(self.next_focus)
      [] action = "prev_focus" -> Some(self.prev_focus)
      [] action = "open_config_menu" -> Some(self.open_config_menu)
      [] action = "up" -> Some(self.up)
      [] action = "down" -> Some(self.down)
      [] action = "right" -> Some(self.right)
      [] action = "left" -> Some(self.left)
      [] action = "take_user_input" -> Some(self.take_user_input)
      [] action = "stop_user_input" -> Some(self.stop_user_input)
      [] action = "hide_ui_element" -> Some(self.hide_ui_element)
      [] action = "save_state" -> Some(self.save_state)
      [] action = "new_board" -> Some(self.new_board)
      [] action = "new_card" -> Some(self.new_card)
      [] action = "delete_card" -> Some(self.delete_card)
      [] action = "delete_board" -> Some(self.delete_board)
      [] action = "change_card_status_to_completed" -> Some(self.change_card_status_to_completed)
      [] action = "change_card_status_to_active" -> Some(self.change_card_status_to_active)
      [] action = "change_card_status_to_stale" -> Some(self.change_card_status_to_stale)
      [] action = "reset_ui" -> Some(self.reset_ui)
      [] action = "go_to_main_menu" -> Some(self.go_to_main_menu)
      [] action = "toggle_command_palette" -> Some(self.toggle_command_palette)
      [] action = "clear_all_toasts" -> Some(self.clear_all_toasts)
      [] action = "undo" -> Some(self.redo)
      [] action = "redo" -> Some(self.redo)
      [] OTHER -> None

\* KeyBindings::get_keybinding
get_keybinding(self, action) ==
    CASE action = "quit" -> Some(self.quit)
      [] action = "next_focus" -> Some(self.next_focus)
      [] action = "prev_focus" -> Some(self.prev_focus)
      [] action = "open_config_menu" -> Some(self.open_config_menu)
      [] action = "up" -> Some(self.up)
      [] action = "down" -> Some(self.down)
      [] action = "right" -> Some(self.right)
      [] action = "left" -> Some(self.left)
      [] action = "take_user_input" -> Some(self.take_user_input)
      [] action = "stop_user_input" -> Some(self.stop_user_input)
      [] action = "hide_ui_element" -> Some(self.hide_ui_element)
      [] action = "save_state" -> Some(self.save_state)
      [] action = "new_board" -> Some(self.new_board)
      [] action = "new_card" -> Some(self.new_card)
      [] action = "delete_card" -> Some(self.delete_card)
      [] action = "delete_board" -> Some(self.delete_board)
      [] action = "change_card_status_to_completed" -> Some(self.change_card_status_to_completed)
      [] action = "change_card_status_to_active" -> Some(self.change_card_status_to_active)
      [] action = "change_card_status_to_stale" -> Some(self.change_card_status_to_stale)
      [] action = "reset_ui" -> Some(self.reset_ui)
      [] action = "go_to_main_menu" -> Some(self.go_to_main_menu)
      [] action = "toggle_command_palette" -> Some(self.toggle_command_palette)
      [] action = "clear_all_toasts" -> Some(self.clear_all_toasts)
      [] action = "undo" -> Some(self.undo)
      [] action = "redo" -> Some(self.redo)
      [] OTHER -> None

\* Restoring the factory keys of one action: the action's list is replaced,
\* through edit_keybinding, by its list in KeyBindings::default(); a name that
\* is no action changes nothing.
reset_keybinding(self, action) ==
    LET factory == get_keybinding(KeyBindings_default, action)
    IN  IF factory = None THEN self
        ELSE edit_keybinding(self, action, factory[2])

\* Restoring the factory keys of every action: the table becomes
\* KeyBindings::default().
reset_all_keybindings(self) == KeyBindings_default

(***************************************************************************)
(* UiMode                                                                  *)
(***************************************************************************)
\* enum UiMode
UiMode ==
    {"Zen", "TitleBody", "BodyHelp", "BodyLog", "TitleBodyHelp",
     "TitleBodyLog", "TitleBodyHelpLog", "BodyHelpLog", "ConfigMenu", "EditKeybindings",
     "MainMenu", "HelpMenu", "LogsOnly", "NewBoard", "NewCard",
     "LoadSave", "CreateTheme", "Login", "SignUp", "ResetPassword",
     "LoadCloudSave"}

\* UiMode::from_string
from_string(s) ==
    CASE s = "Zen" -> Some("Zen")
      [] s = "Title and Body" -> Some("TitleBody")
      [] s = "Body and Help" -> Some("BodyHelp")
      [] s = "Body and Log" -> Some("BodyLog")
      [] s = "Title, Body and Help" -> Some("TitleBodyHelp")
      [] s = "Title, Body and Log" -> Some("TitleBodyLog")
      [] s = "Body, Help and Log" -> Some("BodyHelpLog")
      [] s = "Title, Body, Help and Log" -> Some("TitleBodyHelpLog")
      [] s = "Config" -> Some("ConfigMenu")
      [] s = "Edit Keybindings" -> Some("EditKeybindings")
      [] s = "Main Menu" -> Some("MainMenu")
      [] s = "Help Menu" -> Some("HelpMenu")
      [] s = "Logs Only" -> Some("LogsOnly")
      [] s = "New Board" -> Some("NewBoard")
      [] s = "New Card" -> Some("NewCard")
      [] s = "Load a Save" -> Some("LoadSave")
      [] s = "Create Theme" -> Some("CreateTheme")
      [] OTHER -> None

\* UiMode::from_json_string
from_json_string(s) ==
    CASE s = "Zen" -> Some("Zen")
      [] s = "TitleBody" -> Some("TitleBody")
      [] s = "BodyHelp" -> Some("BodyHelp")
      [] s = "BodyLog" -> Some("BodyLog")
      [] s = "TitleBodyHelp" -> Some("TitleBodyHelp")
      [] s = "TitleBodyLog" -> Some("TitleBodyLog")
      [] s = "BodyHelpLog" -> Some("BodyHelpLog")
      [] s = "TitleBodyHelpLog" -> Some("TitleBodyHelpLog")
      [] s = "ConfigMenu" -> Some("ConfigMenu")
      [] s = "EditKeybindings" -> Some("EditKeybindings")
      [] s = "MainMenu" -> Some("MainMenu")
      [] s = "HelpMenu" -> Some("HelpMenu")
      [] s = "LogsOnly" -> Some("LogsOnly")
      [] s = "NewBoard" -> Some("NewBoard")
      [] s = "NewCard" -> Some("NewCard")
      [] s = "LoadSave" -> Some("LoadSave")
      [] s = "CreateTheme" -> Some("CreateTheme")
      [] OTHER -> None

\* #[derive(Serialize)] on enum UiMode: a unit variant is written as the string
\* of its identifier.
UiMode_serialize(self) ==
    CASE self = "Zen" -> "Zen"
      [] self = "TitleBody" -> "TitleBody"
      [] self = "BodyHelp" -> "BodyHelp"
      [] self = "BodyLog" -> "BodyLog"
      [] self = "TitleBodyHelp" -> "TitleBodyHelp"
      [] self = "TitleBodyLog" -> "TitleBodyLog"
      [] self = "TitleBodyHelpLog" -> "TitleBodyHelpLog"
      [] self = "BodyHelpLog" -> "BodyHelpLog"
      [] self = "ConfigMenu" -> "ConfigMenu"
      [] self = "EditKeybindings" -> "EditKeybindings"
      [] self = "MainMenu" -> "MainMenu"
      [] self = "HelpMenu" -> "HelpMenu"
      [] self = "LogsOnly" -> "LogsOnly"
      [] self = "NewBoard" -> "NewBoard"
      [] self = "NewCard" -> "NewCard"
      [] self = "LoadSave" -> "LoadSave"
      [] self = "CreateTheme" -> "CreateTheme"
      [] self = "Login" -> "Login"
      [] self = "SignUp" -> "SignUp"
      [] self = "ResetPassword" -> "ResetPassword"
      [] self = "LoadCloudSave" -> "LoadCloudSave"

\* from_number falling back to UiMode::default() instead of TitleBody.
from_number_fallback_default(n) ==
    CASE n = 1 -> "Zen"
      [] n = 2 -> "TitleBody"
      [] n = 3 -> "BodyHelp"
      [] n = 4 -> "BodyLog"
      [] n = 5 -> "TitleBodyHelp"
      [] n = 6 -> "TitleBodyLog"
      [] n = 7 -> "BodyHelpLog"
      [] n = 8 -> "TitleBodyHelpLog"
      [] n = 9 -> "LogsOnly"
      [] OTHER -> "Zen"

\* from_number with the modes of the codes 7 and 8 exchanged.
from_number_codes_7_8_swapped(n) ==
    CASE n = 1 -> "Zen"
      [] n = 2 -> "TitleBody"
      [] n = 3 -> "BodyHelp"
      [] n = 4 -> "BodyLog"
      [] n = 5 -> "TitleBodyHelp"
      [] n = 6 -> "TitleBodyLog"
      [] n = 7 -> "TitleBodyHelpLog"
      [] n = 8 -> "BodyHelpLog"
      [] n = 9 -> "LogsOnly"
      [] OTHER -> "TitleBody"

\* UiMode::from_number
from_number(n) ==
    CASE n = 1 -> "Zen"
      [] n = 2 -> "TitleBody"
      [] n = 3 -> "BodyHelp"
      [] n = 4 -> "BodyLog"
      [] n = 5 -> "TitleBodyHelp"
      [] n = 6 -> "TitleBodyLog"
      [] n = 7 -> "BodyHelpLog"
      [] n = 8 -> "TitleBodyHelpLog"
      [] n = 9 -> "LogsOnly"
      [] OTHER -> "TitleBody"

\* get_available_targets that knows the modes up to CreateTheme only and gives
\* the modes added after them no target.
get_available_targets_without_cloud_modes(self) ==
    CASE self = "Zen" -> <<"Body">>
      [] self = "TitleBody" -> <<"Title", "Body">>
      [] self = "BodyHelp" -> <<"Body", "Help">>
      [] self = "BodyLog" -> <<"Body", "Log">>
      [] self = "TitleBodyHelp" -> <<"Title", "Body", "Help">>
      [] self = "TitleBodyLog" -> <<"Title", "Body", "Log">>
      [] self = "BodyHelpLog" -> <<"Body", "Help", "Log">>
      [] self = "TitleBodyHelpLog" -> <<"Title", "Body", "Help", "Log">>
      [] self = "ConfigMenu" -> <<"ConfigTable", "SubmitButton", "ExtraFocus">>
      [] self = "EditKeybindings" -> <<"EditKeybindingsTable", "SubmitButton">>
      [] self = "MainMenu" -> <<"MainMenu", "MainMenuHelp", "Log">>
      [] self = "HelpMenu" -> <<"Help", "Log">>
      [] self = "LogsOnly" -> <<"Log">>
      [] self = "NewBoard" -> <<"NewBoardName", "NewBoardDescription", "SubmitButton">>
      [] self = "NewCard" -> <<"CardName", "CardDescription", "CardDueDate", "SubmitButton">>
      [] self = "LoadSave" -> <<"Body">>
      [] self = "CreateTheme" -> <<"ThemeEditor", "SubmitButton", "ExtraFocus">>
      [] OTHER -> <<>>

\* get_available_targets whose SignUp list names PasswordField twice.
get_available_targets_repeated_target(self) ==
    CASE self = "Zen" -> <<"Body">>
      [] self = "TitleBody" -> <<"Title", "Body">>
      [] self = "BodyHelp" -> <<"Body", "Help">>
      [] self = "BodyLog" -> <<"Body", "Log">>
      [] self = "TitleBodyHelp" -> <<"Title", "Body", "Help">>
      [] self = "TitleBodyLog" -> <<"Title", "Body", "Log">>
      [] self = "BodyHelpLog" -> <<"Body", "Help", "Log">>
      [] self = "TitleBodyHelpLog" -> <<"Title", "Body", "Help", "Log">>
      [] self = "ConfigMenu" -> <<"ConfigTable", "SubmitButton", "ExtraFocus">>
      [] self = "EditKeybindings" -> <<"EditKeybindingsTable", "SubmitButton">>
      [] self = "MainMenu" -> <<"MainMenu", "MainMenuHelp", "Log">>
      [] self = "HelpMenu" -> <<"Help", "Log">>
      [] self = "LogsOnly" -> <<"Log">>
      [] self = "NewBoard" -> <<"NewBoardName", "NewBoardDescription", "SubmitButton">>
      [] self = "NewCard" -> <<"CardName", "CardDescription", "CardDueDate", "SubmitButton">>
      [] self = "LoadSave" -> <<"Body">>
      [] self = "CreateTheme" -> <<"ThemeEditor", "SubmitButton", "ExtraFocus">>
      [] self = "Login" -> <<"Title", "EmailIDField", "PasswordField", "ExtraFocus", "SubmitButton">>
      [] self = "SignUp" -> <<"Title", "EmailIDField", "PasswordField", "PasswordField", "ExtraFocus", "SubmitButton">>
      [] self = "ResetPassword" -> <<"Title", "EmailIDField", "SendResetPasswordLinkButton", "ResetPasswordLinkField", "PasswordField", "ConfirmPasswordField", "ExtraFocus", "SubmitButton">>
      [] self = "LoadCloudSave" -> <<"Body">>

\* UiMode::get_available_targets
get_available_targets(self) ==
    CASE self = "Zen" -> <<"Body">>
      [] self = "TitleBody" -> <<"Title", "Body">>
      [] self = "BodyHelp" -> <<"Body", "Help">>
      [] self = "BodyLog" -> <<"Body", "Log">>
      [] self = "TitleBodyHelp" -> <<"Title", "Body", "Help">>
      [] self = "TitleBodyLog" -> <<"Title", "Body", "Log">>
      [] self = "BodyHelpLog" -> <<"Body", "Help", "Log">>
      [] self = "TitleBodyHelpLog" -> <<"Title", "Body", "Help", "Log">>
      [] self = "ConfigMenu" -> <<"ConfigTable", "SubmitButton", "ExtraFocus">>
      [] self = "EditKeybindings" -> <<"EditKeybindingsTable", "SubmitButton">>
      [] self = "MainMenu" -> <<"MainMenu", "MainMenuHelp", "Log">>
      [] self = "HelpMenu" -> <<"Help", "Log">>
      [] self = "LogsOnly" -> <<"Log">>
      [] self = "NewBoard" -> <<"NewBoardName", "NewBoardDescription", "SubmitButton">>
      [] self = "NewCard" -> <<"CardName", "CardDescription", "CardDueDate", "SubmitButton">>
      [] self = "LoadSave" -> <<"Body">>
      [] self = "CreateTheme" -> <<"ThemeEditor", "SubmitButton", "ExtraFocus">>
      [] self = "Login" -> <<"Title", "EmailIDField", "PasswordField", "ExtraFocus", "SubmitButton">>
      [] self = "SignUp" -> <<"Title", "EmailIDField", "PasswordField", "ConfirmPasswordField", "ExtraFocus", "SubmitButton">>
      [] self = "ResetPassword" -> <<"Title", "EmailIDField", "SendResetPasswordLinkButton", "ResetPasswordLinkField", "PasswordField", "ConfirmPasswordField", "ExtraFocus", "SubmitButton">>
      [] self = "LoadCloudSave" -> <<"Body">>

\* UiMode::view_modes
view_modes == <<"Zen", "TitleBody", "BodyHelp", "BodyLog", "TitleBodyHelp", "TitleBodyLog", "BodyHelpLog", "TitleBodyHelpLog">>

\* impl fmt::Display for UiMode
UiMode_to_string(self) ==
    CASE self = "Zen" -> "Zen"
      [] self = "TitleBody" -> "Title and Body"
      [] self = "BodyHelp" -> "Body and Help"
      [] self = "BodyLog" -> "Body and Log"
      [] self = "TitleBodyHelp" -> "Title, Body and Help"
      [] self = "TitleBodyLog" -> "Title, Body and Log"
      [] self = "BodyHelpLog" -> "Body, Help and Log"
      [] self = "TitleBodyHelpLog" -> "Title, Body, Help and Log"
      [] self = "ConfigMenu" -> "Config"
      [] self = "EditKeybindings" -> "Edit Keybindings"
      [] self = "MainMenu" -> "Main Menu"
      [] self = "HelpMenu" -> "Help Menu"
      [] self = "LogsOnly" -> "Logs Only"
      [] self = "NewBoard" -> "New Board"
      [] self = "NewCard" -> "New Card"
      [] self = "LoadSave" -> "Load a Save (Local)"
      [] self = "CreateTheme" -> "Create Theme"
      [] self = "Login" -> "Login"
      [] self = "SignUp" -> "Sign Up"
      [] self = "ResetPassword" -> "Reset Password"
      [] self = "LoadCloudSave" -> "Load a Save (Cloud)"

(***************************************************************************)
(* Focus                                                                   *)
(***************************************************************************)
\* enum Focus
Focus ==
    {"Title", "Body", "Help", "Log",
     "ConfigTable", "ConfigHelp", "MainMenu", "MainMenuHelp",
     "NewBoardName", "NewBoardDescription", "CardName", "CardDescription",
     "CardDueDate", "SubmitButton", "EditKeybindingsTable", "CloseButton",
     "CommandPaletteCommand", "CommandPaletteCard", "CommandPaletteBoard", "LoadSave",
     "SelectDefaultView", "ChangeUiModePopup", "ChangeCardStatusPopup", "EditGeneralConfigPopup",
     "EditSpecificKeyBindingPopup", "ThemeSelector", "ThemeEditor", "StyleEditorFG",
     "StyleEditorBG", "StyleEditorModifier", "TextInput", "CardPriority",
     "CardStatus", "CardTags", "CardComments", "ChangeCardPriorityPopup",
     "ChangeDateFormatPopup", "FilterByTagPopup", "NoFocus", "ExtraFocus",
     "EmailIDField", "PasswordField", "ConfirmPasswordField", "SendResetPasswordLinkButton",
     "ResetPasswordLinkField"}

\* Focus::to_str
to_str(self) ==
    CASE self = "Title" -> "Title"
      [] self = "Body" -> "Body"
      [] self = "Help" -> "Help"
      [] self = "Log" -> "Log"
      [] self = "ConfigTable" -> "Config"
      [] self = "ConfigHelp" -> "Config Help"
      [] self = "MainMenu" -> "Main Menu"
      [] self = "MainMenuHelp" -> "Main Menu Help"
      [] self = "NewBoardName" -> "New Board Name"
      [] self = "NewBoardDescription" -> "New Board Description"
      [] self = "CardName" -> "New Card Name"
      [] self = "CardDescription" -> "Card Description"
      [] self = "CardDueDate" -> "Card Due Date"
      [] self = "SubmitButton" -> "Submit Button"
      [] self = "EditKeybindingsTable" -> "Edit Keybindings Table"
      [] self = "CloseButton" -> "Close Button"
      [] self = "CommandPaletteCommand" -> "Command Palette Command"
      [] self = "CommandPaletteCard" -> "Command Palette Card"
      [] self = "CommandPaletteBoard" -> "Command Palette Board"
      [] self = "LoadSave" -> "Load Save"
      [] self = "SelectDefaultView" -> "Select Default View"
      [] self = "ChangeUiModePopup" -> "Change Ui Mode Popup"
      [] self = "ChangeCardStatusPopup" -> "Change Card Status Popup"
      [] self = "EditGeneralConfigPopup" -> "Edit General Config Popup"
      [] self = "EditSpecificKeyBindingPopup" -> "Edit Specific Key Binding Popup"
      [] self = "ThemeSelector" -> "Theme Selector"
      [] self = "ThemeEditor" -> "Theme Editor"
      [] self = "StyleEditorFG" -> "Theme Editor FG"
      [] self = "StyleEditorBG" -> "Theme Editor BG"
      [] self = "StyleEditorModifier" -> "Theme Editor Modifier"
      [] self = "TextInput" -> "Text Input"
      [] self = "CardPriority" -> "Card Priority"
      [] self = "CardStatus" -> "Card Status"
      [] self = "CardTags" -> "Card Tags"
      [] self = "CardComments" -> "Card Comments"
      [] self = "ChangeCardPriorityPopup" -> "Change Card Priority Popup"
      [] self = "ChangeDateFormatPopup" -> "Change Date Format Popup"
      [] self = "FilterByTagPopup" -> "Filter By Tag Popup"
      [] self = "NoFocus" -> "No Focus"
      [] self = "ExtraFocus" -> "Extra Focus"
      [] self = "EmailIDField" -> "Email ID Field"
      [] self = "PasswordField" -> "Password Field"
      [] self = "ConfirmPasswordField" -> "Confirm Password Field"
      [] self = "SendResetPasswordLinkButton" -> "Send Reset Password Link Button"
      [] self = "ResetPasswordLinkField" -> "OTP Field"

\* impl FromStr for Focus
from_str(s) ==
    CASE s = "Title" -> <<"Ok", "Title">>
      [] s = "Body" -> <<"Ok", "Body">>
      [] s = "Help" -> <<"Ok", "Help">>
      [] s = "Log" -> <<"Ok", "Log">>
      [] s = "Config" -> <<"Ok", "ConfigTable">>
      [] s = "Config Help" -> <<"Ok", "ConfigHelp">>
      [] s = "Main Menu" -> <<"Ok", "MainMenu">>
      [] s = "Main Menu Help" -> <<"Ok", "MainMenuHelp">>
      [] s = "No Focus" -> <<"Ok", "NoFocus">>
      [] s = "New Board Name" -> <<"Ok", "NewBoardName">>
      [] s = "New Board Description" -> <<"Ok", "NewBoardDescription">>
      [] s = "New Card Name" -> <<"Ok", "CardName">>
      [] s = "Card Description" -> <<"Ok", "CardDescription">>
      [] s = "Card Due Date" -> <<"Ok", "CardDueDate">>
      [] s = "Edit Keybindings Table" -> <<"Ok", "EditKeybindingsTable">>
      [] s = "Close Button" -> <<"Ok", "CloseButton">>
      [] s = "Command Palette Command" -> <<"Ok", "CommandPaletteCommand">>
      [] s = "Command Palette Card" -> <<"Ok", "CommandPaletteCard">>
      [] s = "Command Palette Board" -> <<"Ok", "CommandPaletteBoard">>
      [] s = "Load Save" -> <<"Ok", "LoadSave">>
      [] s = "Select Default View" -> <<"Ok", "SelectDefaultView">>
      [] s = "Change Ui Mode Popup" -> <<"Ok", "ChangeUiModePopup">>
      [] s = "Change Card Status Popup" -> <<"Ok", "ChangeCardStatusPopup">>
      [] s = "Edit General Config Popup" -> <<"Ok", "EditGeneralConfigPopup">>
      [] s = "Edit Specific Key Binding Popup" -> <<"Ok", "EditSpecificKeyBindingPopup">>
      [] s = "Theme Selector" -> <<"Ok", "ThemeSelector">>
      [] s = "Theme Editor" -> <<"Ok", "ThemeEditor">>
      [] s = "Theme Editor FG" -> <<"Ok", "StyleEditorFG">>
      [] s = "Theme Editor BG" -> <<"Ok", "StyleEditorBG">>
      [] s = "Theme Editor Modifier" -> <<"Ok", "StyleEditorModifier">>
      [] s = "Text Input" -> <<"Ok", "TextInput">>
      [] s = "Card Priority" -> <<"Ok", "CardPriority">>
      [] s = "Card Status" -> <<"Ok", "CardStatus">>
      [] s = "Card Tags" -> <<"Ok", "CardTags">>
      [] s = "Card Comments" -> <<"Ok", "CardComments">>
      [] s = "Change Card Priority Popup" -> <<"Ok", "ChangeCardPriorityPopup">>
      [] s = "Filter By Tag Popup" -> <<"Ok", "FilterByTagPopup">>
      [] s = "Submit Button" -> <<"Ok", "SubmitButton">>
      [] s = "Extra Focus" -> <<"Ok", "ExtraFocus">>
      [] OTHER -> <<"Ok", "NoFocus">>

\* The outcome of a call that panics (an index out of bounds, an unwrap of None,
\* an explicit panic!).
Panic == "panic!"

\* Vec indexing, v[i] with i counted from 0: out of bounds panics.
Index(v, i) == IF i >= 0 /\ i < Len(v) THEN v[i + 1] ELSE Panic

\* iter().position(|x| x == self): the first index, from 0, holding self.
position(v, x) ==
    (CHOOSE i \in 1..Len(v) : v[i] = x /\ \A j \in 1..(i - 1) : v[j] # x) - 1

\* Focus::next that stops at the last tab instead of wrapping.
Focus_next_clamped(self, available_tabs) ==
    IF Contains(available_tabs, self)
    THEN LET index == position(available_tabs, self)
         IN  IF index = Len(available_tabs) - 1
             THEN Index(available_tabs, index)
             ELSE Index(available_tabs, index + 1)
    ELSE Index(available_tabs, 0)

\* Focus::next that leaves a focus outside the tabs where it is.
Focus_next_stay(self, available_tabs) ==
    IF Contains(available_tabs, self)
    THEN LET index == position(available_tabs, self)
         IN  IF index = Len(available_tabs) - 1
             THEN Index(available_tabs, 0)
             ELSE Index(available_tabs, index + 1)
    ELSE self

\* Focus::next
Focus_next(self, available_tabs) ==
    IF Contains(available_tabs, self)
    THEN LET index == position(available_tabs, self)
         IN  IF index = Len(available_tabs) - 1
             THEN Index(available_tabs, 0)
             ELSE Index(available_tabs, index + 1)
    ELSE Index(available_tabs, 0)

\* Focus::prev that stops at the first tab instead of wrapping.
Focus_prev_clamped(self, available_tabs) ==
    IF Contains(available_tabs, self)
    THEN LET index == position(available_tabs, self)
         IN  IF index = 0
             THEN Index(available_tabs, 0)
             ELSE Index(available_tabs, index - 1)
    ELSE Index(available_tabs, 0)

\* Focus::prev that leaves a focus outside the tabs where it is.
Focus_prev_stay(self, available_tabs) ==
    IF Contains(available_tabs, self)
    THEN LET index == position(available_tabs, self)
         IN  IF index = 0
             THEN Index(available_tabs, Len(available_tabs) - 1)
             ELSE Index(available_tabs, index - 1)
    ELSE self

\* Focus::prev that wraps to the tab before the last one.
Focus_prev_wraps_short(self, available_tabs) ==
    IF Contains(available_tabs, self)
    THEN LET index == position(available_tabs, self)
         IN  IF index = 0
             THEN Index(available_tabs, IF Len(available_tabs) > 1 THEN Len(available_tabs) - 2 ELSE 0)
             ELSE Index(available_tabs, index - 1)
    ELSE Index(available_tabs, 0)

\* Focus::prev
Focus_prev(self, available_tabs) ==
    IF Contains(available_tabs, self)
    THEN LET index == position(available_tabs, self)
         IN  IF index = 0
             THEN Index(available_tabs, Len(available_tabs) - 1)
             ELSE Index(available_tabs, index - 1)
    ELSE Index(available_tabs, 0)

(***************************************************************************)
(* Key                                                                     *)
(***************************************************************************)
\* A function returning a Key that panics instead.
PanicKey == <<Panic>>

\* from_f whose last arm repeats the key of the arm before it.
from_f_repeated_arm(n) ==
    CASE n = 0 -> Named("F0")
      [] n = 1 -> Named("F1")
      [] n = 2 -> Named("F2")
      [] n = 3 -> Named("F3")
      [] n = 4 -> Named("F4")
      [] n = 5 -> Named("F5")
      [] n = 6 -> Named("F6")
      [] n = 7 -> Named("F7")
      [] n = 8 -> Named("F8")
      [] n = 9 -> Named("F9")
      [] n = 10 -> Named("F10")
      [] n = 11 -> Named("F11")
      [] n = 12 -> Named("F11")
      [] OTHER -> PanicKey

\* Key::from_f
from_f(n) ==
    CASE n = 0 -> Named("F0")
      [] n = 1 -> Named("F1")
      [] n = 2 -> Named("F2")
      [] n = 3 -> Named("F3")
      [] n = 4 -> Named("F4")
      [] n = 5 -> Named("F5")
      [] n = 6 -> Named("F6")
      [] n = 7 -> Named("F7")
      [] n = 8 -> Named("F8")
      [] n = 9 -> Named("F9")
      [] n = 10 -> Named("F10")
      [] n = 11 -> Named("F11")
      [] n = 12 -> Named("F12")
      [] OTHER -> PanicKey

\* Key::from(KeyEvent) whose Tab arm does not look at the kind of the event.
Key_from_event_tab_of_any_kind(key_event) ==
    LET code == key_event.code
        press == key_event.kind = "Press"
        modifiers == key_event.modifiers
    IN  IF code = <<"Esc">> /\ press THEN Named("Esc")
        ELSE IF code = <<"Backspace">> /\ press THEN Named("Backspace")
        ELSE IF code = <<"Left">> /\ press /\ modifiers = {"SHIFT"} THEN Named("ShiftLeft")
        ELSE IF code = <<"Left">> /\ press THEN Named("Left")
        ELSE IF code = <<"Right">> /\ press /\ modifiers = {"SHIFT"} THEN Named("ShiftRight")
        ELSE IF code = <<"Right">> /\ press THEN Named("Right")
        ELSE IF code = <<"Up">> /\ press /\ modifiers = {"SHIFT"} THEN Named("ShiftUp")
        ELSE IF code = <<"Up">> /\ press THEN Named("Up")
        ELSE IF code = <<"Down">> /\ press /\ modifiers = {"SHIFT"} THEN Named("ShiftDown")
        ELSE IF code = <<"Down">> /\ press THEN Named("Down")
        ELSE IF code = <<"Home">> /\ press THEN Named("Home")
        ELSE IF code = <<"End">> /\ press THEN Named("End")
        ELSE IF code = <<"PageUp">> /\ press THEN Named("PageUp")
        ELSE IF code = <<"PageDown">> /\ press THEN Named("PageDown")
        ELSE IF code = <<"Delete">> /\ press THEN Named("Delete")
        ELSE IF code = <<"Insert">> /\ press THEN Named("Ins")
        ELSE IF code[1] = "F" /\ press THEN from_f(code[2])
        ELSE IF code = <<"Enter">> /\ press THEN Named("Enter")
        ELSE IF code = <<"BackTab">> /\ press /\ modifiers = {"SHIFT"} THEN Named("BackTab")
        ELSE IF code = <<"Tab">> THEN Named("Tab")
        ELSE IF code[1] = "Char" /\ press /\ modifiers = {"ALT"} THEN Alt(code[2])
        ELSE IF code[1] = "Char" /\ press /\ modifiers = {"CONTROL"} THEN Ctrl(code[2])
        ELSE IF code[1] = "Char" /\ press THEN Char(code[2])
        ELSE Named("Unknown")

\* impl From<event::KeyEvent> for Key.  A key event is a record of its code
\* (<<name>>, <<"F", n>> or <<"Char", c>>), its kind and its set of modifiers;
\* the arms are tried in the order of the match, and a modifiers pattern
\* matches the exact set only.
Key_from_event(key_event) ==
    LET code == key_event.code
        press == key_event.kind = "Press"
        modifiers == key_event.modifiers
    IN  IF code = <<"Esc">> /\ press THEN Named("Esc")
        ELSE IF code = <<"Backspace">> /\ press THEN Named("Backspace")
        ELSE IF code = <<"Left">> /\ press /\ modifiers = {"SHIFT"} THEN Named("ShiftLeft")
        ELSE IF code = <<"Left">> /\ press THEN Named("Left")
        ELSE IF code = <<"Right">> /\ press /\ modifiers = {"SHIFT"} THEN Named("ShiftRight")
        ELSE IF code = <<"Right">> /\ press THEN Named("Right")
        ELSE IF code = <<"Up">> /\ press /\ modifiers = {"SHIFT"} THEN Named("ShiftUp")
        ELSE IF code = <<"Up">> /\ press THEN Named("Up")
        ELSE IF code = <<"Down">> /\ press /\ modifiers = {"SHIFT"} THEN Named("ShiftDown")
        ELSE IF code = <<"Down">> /\ press THEN Named("Down")
        ELSE IF code = <<"Home">> /\ press THEN Named("Home")
        ELSE IF code = <<"End">> /\ press THEN Named("End")
        ELSE IF code = <<"PageUp">> /\ press THEN Named("PageUp")
        ELSE IF code = <<"PageDown">> /\ press THEN Named("PageDown")
        ELSE IF code = <<"Delete">> /\ press THEN Named("Delete")
        ELSE IF code = <<"Insert">> /\ press THEN Named("Ins")
        ELSE IF code[1] = "F" /\ press THEN from_f(code[2])
        ELSE IF code = <<"Enter">> /\ press THEN Named("Enter")
        ELSE IF code = <<"BackTab">> /\ press /\ modifiers = {"SHIFT"} THEN Named("BackTab")
        ELSE IF code = <<"Tab">> /\ press THEN Named("Tab")
        ELSE IF code[1] = "Char" /\ press /\ modifiers = {"ALT"} THEN Alt(code[2])
        ELSE IF code[1] = "Char" /\ press /\ modifiers = {"CONTROL"} THEN Ctrl(code[2])
        ELSE IF code[1] = "Char" /\ press THEN Char(code[2])
        ELSE Named("Unknown")

\* impl Display for Key.  The arms are tried in the order of the match; the last
\* arm writes the Debug form of a unit variant, which is its name.
Key_to_string(self) ==
    IF self = Alt(" ") THEN "<Alt+Space>"
    ELSE IF self = Ctrl(" ") THEN "<Ctrl+Space>"
    ELSE IF self = Char(" ") THEN "<Space>"
    ELSE IF self[1] = "Alt" THEN "<Alt+" \o self[2] \o ">"
    ELSE IF self[1] = "Ctrl" THEN "<Ctrl+" \o self[2] \o ">"
    ELSE IF self[1] = "Char" THEN "<" \o self[2] \o ">"
    ELSE IF self = Named("Tab") THEN "<Tab>"
    ELSE IF self = Named("BackTab") THEN "<Shift+Tab>"
    ELSE IF self = Named("ShiftUp") THEN "<Shift+Up>"
    ELSE IF self = Named("ShiftDown") THEN "<Shift+Down>"
    ELSE IF self = Named("ShiftLeft") THEN "<Shift+Left>"
    ELSE IF self = Named("ShiftRight") THEN "<Shift+Right>"
    ELSE "<" \o self[1] \o ">"

\* serde_json's Map::get, Value::as_str and str::chars().next(), each an Option.
\* A map is a function from its keys to values; a value is <<"String", s>> with
\* s the sequence of its characters, or <<kind>> for any other kind of value.
Map_get(value, k) == IF k \in DOMAIN value THEN Some(value[k]) ELSE None
as_str(v) == IF v[1] = "String" THEN Some(v[2]) ELSE None
chars_next(s) == IF Len(s) > 0 THEN Some(s[1]) ELSE None

\* value.get(tag).unwrap().as_str().unwrap().chars().next().unwrap(): the
\* character, or Panic when one of the three unwraps meets None.
unwrap_char(value, tag) ==
    LET got == Map_get(value, tag) IN
    IF got = None THEN Panic
    ELSE LET str == as_str(got[2]) IN
         IF str = None THEN Panic
         ELSE LET c == chars_next(str[2]) IN
              IF c = None THEN Panic ELSE c[2]

\* impl From<&Map<String, Value>> for Key
Key_from_map(value) ==
    IF Map_get(value, "Char") # None
    THEN LET c == unwrap_char(value, "Char") IN
         IF c = Panic THEN PanicKey ELSE Char(c)
    ELSE IF Map_get(value, "Alt") # None
    THEN LET c == unwrap_char(value, "Alt") IN
         IF c = Panic THEN PanicKey ELSE Alt(c)
    ELSE IF Map_get(value, "Ctrl") # None
    THEN LET c == unwrap_char(value, "Ctrl") IN
         IF c = Panic THEN PanicKey ELSE Ctrl(c)
    ELSE Named("Unknown")

(***************************************************************************)
(* The key-binding table as a state machine: the table starts as the       *)
(* factory default and is changed by edit_keybinding only; get_keybinding  *)
(* and key_to_action read it.                                              *)
(***************************************************************************)
MaxKeys == 3

\* The key lists handed to edit_keybinding: every list of at most MaxKeys keys
\* over KeyPool, the list of the conflict scenario (Char('x') alone), and the
\* key another action (next_focus) holds by default.
KeyPool == {Ctrl("c"), Char("q")}
KeyLists ==
    UNION {[1..n -> KeyPool] : n \in 0..MaxKeys} \cup {<<Char("x")>>, <<Named("Tab")>>}
EditNames == {"quit", "undo", "no_such_action"}
ProbeKeys == KeyPool \cup {Char("x"), Ctrl("z"), Named("Tab"), Named("Unknown")}
\* The names handed to get_keybinding: every field of the struct and a name
\* that is none of them.
GetNames == {KeyBindingsFields[i] : i \in 1..Len(KeyBindingsFields)} \cup {"no_such_action"}

KbIdle == /\ mode = "Zen" /\ focus = "NoFocus" /\ from = "NoFocus"
          /\ fop = "init" /\ fprev = "init" /\ origin = "NoFocus" /\ count = 0
FocusIdle == /\ kb = KeyBindings_default /\ kbOp = <<"default">>
PureIdle == /\ pin = <<"none">> /\ pfn = "none" /\ pout = <<"none">>

Init ==
    /\ kb = KeyBindings_default
    /\ kbOp = <<"default">>
    /\ KbIdle
    /\ PureIdle

EditKeybinding(name, keys) ==
    /\ kb' = edit_keybinding(kb, name, keys)
    /\ kbOp' = <<"edit_keybinding", name, keys>>
    /\ UNCHANGED <<focusVars, pureVars>>

GetKeybinding(name) ==
    /\ kbOp' = <<"get_keybinding", name, get_keybinding(kb, name)>>
    /\ UNCHANGED <<kb, focusVars, pureVars>>

\* key_to_action takes self by value: the caller hands it a clone and keeps
\* its own table.
KeyToAction(key) ==
    /\ kbOp' = <<"key_to_action", key, key_to_action(kb, key)>>
    /\ UNCHANGED <<kb, focusVars, pureVars>>

\* str_to_action takes self by value, as key_to_action does.
StrToAction(name) ==
    /\ kbOp' = <<"str_to_action", name, str_to_action(kb, name)>>
    /\ UNCHANGED <<kb, focusVars, pureVars>>

ResetKeybinding(name) ==
    /\ kb' = reset_keybinding(kb, name)
    /\ kbOp' = <<"reset_keybinding", name>>
    /\ UNCHANGED <<focusVars, pureVars>>

ResetAllKeybindings ==
    /\ kb' = reset_all_keybindings(kb)
    /\ kbOp' = <<"reset_all_keybindings">>
    /\ UNCHANGED <<focusVars, pureVars>>

Next ==
    \/ \E name \in EditNames, keys \in KeyLists : EditKeybinding(name, keys)
    \/ \E name \in GetNames : GetKeybinding(name)
    \/ \E key \in ProbeKeys : KeyToAction(key)
    \/ \E name \in GetNames : StrToAction(name)
    \/ \E name \in EditNames : ResetKeybinding(name)
    \/ ResetAllKeybindings

Spec == Init /\ [][Next]_vars
(***************************************************************************)
(* The focus ring as a state machine: the application holds a mode and a   *)
(* focus; a mode change keeps the focus it finds, and the next_focus and   *)
(* prev_focus actions move the focus over the mode's targets.  A run is a  *)
(* sequence of steps in one direction with the mode fixed.                 *)
(***************************************************************************)
MaxRun == 8

FocusInit ==
    /\ mode \in UiMode
    /\ focus \in Focus
    /\ from = focus
    /\ fop = "init"
    /\ fprev = "init"
    /\ origin = focus
    /\ count = 0
    /\ FocusIdle
    /\ PureIdle

SetMode(m) ==
    /\ mode' = m
    /\ fop' = "set_mode"
    /\ fprev' = fop
    /\ from' = focus
    /\ origin' = focus
    /\ count' = 0
    /\ UNCHANGED <<focus, kbVars, pureVars>>

Step(op, target) ==
    /\ target # Panic
    /\ focus' = target
    /\ from' = focus
    /\ fop' = op
    /\ fprev' = fop
    /\ IF fop = op /\ count < MaxRun
       THEN /\ origin' = origin
            /\ count' = count + 1
       ELSE /\ origin' = focus
            /\ count' = 1
    /\ UNCHANGED <<mode, kbVars, pureVars>>

NextFocus == Step("next", Focus_next(focus, get_available_targets(mode)))

PrevFocus == Step("prev", Focus_prev(focus, get_available_targets(mode)))

FocusNext ==
    \/ \E m \in UiMode : SetMode(m)
    \/ NextFocus
    \/ PrevFocus

FocusSpec == FocusInit /\ [][FocusNext]_vars

(***************************************************************************)
(* The pure functions, each applied to an input drawn from a bounded set.  *)
(***************************************************************************)
U8Max == 255

KeyCodes ==
    {<<n>> : n \in {"Backspace", "Enter", "Left", "Right", "Up", "Down", "Home",
                    "End", "PageUp", "PageDown", "Tab", "BackTab", "Delete",
                    "Insert", "Null", "Esc", "CapsLock"}}
    \cup {<<"F", n>> : n \in 0..U8Max}
    \cup {<<"Char", c>> : c \in {"q", "c", " "}}
KeyEventKinds == {"Press", "Repeat", "Release"}
KeyModifiers == SUBSET {"SHIFT", "CONTROL", "ALT"}
KeyEvents == [code : KeyCodes, kind : KeyEventKinds, modifiers : KeyModifiers]

JsonValues ==
    {<<"String", <<>>>>, <<"String", <<"a">>>>, <<"String", <<"a", "b">>>>,
     <<"Number">>, <<"Null">>}
JsonKeys == {"Char", "Alt", "Ctrl", "F"}
JsonMaps == UNION {[d -> JsonValues] : d \in SUBSET JsonKeys}

\* enum Key, the character of Char, Ctrl and Alt drawn from three characters.
Keys ==
    {Named(n) : n \in {"Enter", "Tab", "Backspace", "Esc", "Space", "Left", "Right",
                       "Up", "Down", "Ins", "Delete", "Home", "End", "PageUp",
                       "PageDown", "F0", "F1", "F2", "F3", "F4", "F5", "F6", "F7",
                       "F8", "F9", "F10", "F11", "F12", "BackTab", "ShiftUp",
                       "ShiftDown", "ShiftLeft", "ShiftRight", "Unknown"}}
    \cup {Char(c) : c \in {"q", "c", " "}}
    \cup {Ctrl(c) : c \in {"q", "c", " "}}
    \cup {Alt(c) : c \in {"q", "c", " "}}

\* Strings handed to from_json_string: the identifiers of the variants, and
\* strings that are the identifier of none (display strings, another case,
\* the empty string).
ModeStrings ==
    {UiMode_serialize(m) : m \in UiMode}
    \cup {UiMode_to_string(m) : m \in UiMode}
    \cup {"zen", "ZEN", "", "Title Body", "1"}

PureInputs ==
    {<<"KeyEvent", e>> : e \in KeyEvents}
    \cup {<<"Map", m>> : m \in JsonMaps}
    \cup {<<"UiMode", m>> : m \in UiMode}
    \cup {<<"Keys", k1, k2>> : k1 \in Keys, k2 \in Keys}
    \cup {<<"Focus", f>> : f \in Focus}
    \cup {<<"u8", n>> : n \in 0..U8Max}
    \cup {<<"str", s>> : s \in ModeStrings}

PureInit ==
    /\ pin \in PureInputs
    /\ pfn = "none"
    /\ pout = <<"none">>
    /\ FocusIdle
    /\ KbIdle

Apply(fn, out) ==
    /\ pfn' = fn
    /\ pout' = out
    /\ UNCHANGED <<pin, kbVars, focusVars>>

KeyFromEvent ==
    /\ pin[1] = "KeyEvent"
    /\ Apply("Key::from(KeyEvent)", Key_from_event(pin[2]))

KeyFromMap ==
    /\ pin[1] = "Map"
    /\ Apply("Key::from(Map)", Key_from_map(pin[2]))

\* UiMode::from_string(&mode.to_string())
ModeDisplayRoundTrip ==
    /\ pin[1] = "UiMode"
    /\ Apply("UiMode::from_string(to_string)", from_string(UiMode_to_string(pin[2])))

\* key.to_string() of two keys
KeyDisplayPair ==
    /\ pin[1] = "Keys"
    /\ Apply("Key::to_string", <<Key_to_string(pin[2]), Key_to_string(pin[3])>>)

\* Focus::from_str(focus.to_str())
FocusRoundTrip ==
    /\ pin[1] = "Focus"
    /\ Apply("Focus::from_str(to_str)", from_str(to_str(pin[2])))

\* UiMode::from_json_string applied to the serialized form of a mode
ModeJsonRoundTrip ==
    /\ pin[1] = "UiMode"
    /\ Apply("UiMode::from_json_string(serialize)",
             from_json_string(UiMode_serialize(pin[2])))

ModeFromJsonString ==
    /\ pin[1] = "str"
    /\ Apply("UiMode::from_json_string", from_json_string(pin[2]))

ModeFromNumber ==
    /\ pin[1] = "u8"
    /\ Apply("UiMode::from_number", from_number(pin[2]))

\* KeyBindings::default().key_to_action(Key::from(key_event)): the key of the
\* event and the action it resolves to; a panic of the conversion ends both.
KeyEventToAction ==
    /\ pin[1] = "KeyEvent"
    /\ LET key == Key_from_event(pin[2])
       IN  Apply("key_to_action(Key::from(KeyEvent))",
                 IF key = PanicKey THEN <<PanicKey, PanicKey>>
                 ELSE <<key, key_to_action(KeyBindings_default, key)>>)

PureNext ==
    \/ KeyFromEvent
    \/ KeyEventToAction
    \/ KeyFromMap
    \/ ModeDisplayRoundTrip
    \/ KeyDisplayPair
    \/ FocusRoundTrip
    \/ ModeJsonRoundTrip
    \/ ModeFromJsonString
    \/ ModeFromNumber

PureSpec == PureInit /\ [][PureNext]_vars

(***************************************************************************)
(* Properties of the key-binding table                                     *)
(***************************************************************************)
\* The priority order of the actions, as the specification declares it.
PriorityOrder ==
    <<"quit", "next_focus", "prev_focus", "open_config_menu", "up", "down",
      "right", "left", "take_user_input", "stop_user_input", "hide_ui_element",
      "save_state", "new_board", "new_card", "delete_card", "delete_board",
      "change_card_status_to_completed", "change_card_status_to_active",
      "change_card_status_to_stale", "reset_ui", "go_to_main_menu",
      "toggle_command_palette", "clear_all_toasts", "undo", "redo">>

KnownNames == {PriorityOrder[i] : i \in 1..Len(PriorityOrder)}

\* The positions in PriorityOrder of the actions whose list holds key k.
Holders(k) == {i \in 1..Len(PriorityOrder) : Contains(kb[PriorityOrder[i]], k)}

\* s with every repeated element removed, the first occurrence kept.
RECURSIVE FirstOccurrences(_)
FirstOccurrences(s) ==
    IF Len(s) = 0 THEN s
    ELSE LET front == FirstOccurrences(SubSeq(s, 1, Len(s) - 1))
             last == s[Len(s)]
         IN  IF Contains(front, last) THEN front ELSE Append(front, last)

NoRepeat(s) == \A i, j \in 1..Len(s) : s[i] = s[j] => i = j

\* C1: a key bound under two or more actions resolves to the action that comes
\* first in the declared priority order; Char('x') bound to both quit and undo
\* resolves to Quit.
C1_PriorityResolution ==
    kbOp[1] = "key_to_action" =>
        LET k == kbOp[2]
            h == Holders(k)
        IN  /\ Cardinality(h) >= 2 =>
                LET first == CHOOSE i \in h : \A j \in h : i <= j
                IN  kbOp[3] = str_to_action(kb, PriorityOrder[first])
            /\ (k = Char("x") /\ Contains(kb.quit, k) /\ Contains(kb.undo, k)) =>
                kbOp[3] = Some("Quit")

C1_Witness ==
    /\ kbOp = <<"key_to_action", Char("x"), Some("Quit")>>
    /\ Contains(kb.quit, Char("x"))
    /\ Contains(kb.undo, Char("x"))

\* C2: after edit_keybinding(a, newKeys) with a known action name a,
\* get_keybinding(a) is newKeys with every repeated key removed, the first
\* occurrence of each key kept in its place.
C2_EditRemovesAllRepeats ==
    (kbOp[1] = "edit_keybinding" /\ kbOp[2] \in KnownNames) =>
        get_keybinding(kb, kbOp[2]) = Some(FirstOccurrences(kbOp[3]))

\* C3: in every table reachable from the factory default by edit_keybinding
\* calls, no action's key list holds the same key twice.
C3_ListsHaveNoRepeat ==
    \A name \in KnownNames : NoRepeat(kb[name])
\* C11: edit_keybinding called with a name that is not one of the 25 known
\* action names leaves every action's key list as it was, and does not fail.
C11_UnknownNameEditIsNoOp ==
    [][(kbOp'[1] = "edit_keybinding" /\ kbOp'[2] \notin KnownNames) => kb' = kb]_vars

C11_Witness ==
    /\ kbOp = <<"edit_keybinding", "no_such_action", <<Char("x")>>>>
    /\ kb.quit = <<Char("q"), Ctrl("c"), Char("q")>>
    /\ kb.undo = KeyBindings_default.undo

\* C12: key_to_action(k) returns None exactly when no action's key list holds k,
\* and Some action when at least one list holds k.
C12_NoneIffUnbound ==
    kbOp[1] = "key_to_action" =>
        /\ kbOp[3] = None <=> Holders(kbOp[2]) = {}
        /\ Holders(kbOp[2]) # {} => (kbOp[3][1] = "Some" /\ Len(kbOp[3]) = 2)

C12_Witness ==
    /\ kbOp = <<"key_to_action", Ctrl("c"), Some("Undo")>>
    /\ ~Contains(kb.quit, Ctrl("c"))

\* C13: get_keybinding(name) returns None for every name that is not a known
\* action name, and the key list bound to the action for every known name.
C13_LookupByName ==
    kbOp[1] = "get_keybinding" =>
        IF kbOp[2] \in KnownNames
        THEN kbOp[3] = Some(kb[kbOp[2]])
        ELSE kbOp[3] = None

C13_Witness ==
    /\ kbOp = <<"get_keybinding", "undo", Some(<<Ctrl("c"), Char("q")>>)>>
    /\ kb.undo # KeyBindings_default.undo

C26_DefaultTableUnambiguous ==
    kb = KeyBindings_default =>
        /\ \A a, b \in KnownNames :
            a # b => ~\E i \in 1..Len(kb[a]) : Contains(kb[b], kb[a][i])
        /\ \A a \in KnownNames : NoRepeat(kb[a])
        /\ \A a \in KnownNames : \A i \in 1..Len(kb[a]) :
            key_to_action(kb, kb[a][i]) = str_to_action(kb, a)
        /\ (kbOp[1] = "key_to_action" /\ Holders(kbOp[2]) # {}) =>
            \E a \in KnownNames : /\ Contains(kb[a], kbOp[2])
                                  /\ kbOp[3] = str_to_action(kb, a)

C26_Witness ==
    /\ kb = KeyBindings_default
    /\ kbOp = <<"key_to_action", Ctrl("z"), Some("Undo")>>

\* C27: edit_keybinding(a, keys) with a known action name a changes the key list
\* of a only: the lists of the other 24 actions are the same before and after.
C27_EditFrame ==
    [][(kbOp'[1] = "edit_keybinding" /\ kbOp'[2] \in KnownNames) =>
            \A other \in KnownNames \ {kbOp'[2]} : kb'[other] = kb[other]]_vars

C27_Witness ==
    /\ kbOp = <<"edit_keybinding", "undo", <<Char("q"), Char("q"), Ctrl("c")>>>>
    /\ kb.undo = <<Char("q"), Ctrl("c")>>
    /\ kb.redo = KeyBindings_default.redo
    /\ kb.quit = <<Named("Tab")>>

\* The names iter() yields, in its order.
IterNames == [i \in 1..Len(iter(kb)) |-> iter(kb)[i][1]]

\* C28: the four name-keyed tables agree.  iter() yields each of the 25 action
\* names once; get_keybinding, edit_keybinding and str_to_action accept each of
\* them; get_keybinding(name) is the list iter() pairs with name; and the match
\* of key_to_action gives for name the action str_to_action gives (its
\* fall-through arm is not reached).
C28_NameTablesAgree ==
    /\ Len(IterNames) = Len(KeyBindingsFields)
    /\ Len(IterNames) = Len(PriorityOrder)
    /\ NoRepeat(IterNames)
    /\ {IterNames[i] : i \in 1..Len(IterNames)} = DOMAIN kb
    /\ \A i \in 1..Len(IterNames) :
        LET name == IterNames[i] IN
        /\ get_keybinding(kb, name) = Some(iter(kb)[i][2])
        /\ get_keybinding(edit_keybinding(kb, name, <<Named("Unknown")>>), name)
                = Some(<<Named("Unknown")>>)
        /\ str_to_action(kb, name) # None
        /\ key_to_action_match(name) = str_to_action(kb, name)
    /\ (kbOp[1] = "key_to_action" /\ Holders(kbOp[2]) # {}) =>
        \E i \in 1..Len(IterNames) :
            /\ Contains(iter(kb)[i][2], kbOp[2])
            /\ kbOp[3] = str_to_action(kb, IterNames[i])
            /\ kbOp[3] # None
    /\ (kbOp[1] = "str_to_action" /\ Contains(IterNames, kbOp[2])) => kbOp[3] # None

C28_Witness ==
    /\ kbOp = <<"str_to_action", "prev_focus", Some("PrvFocus")>>
    /\ kb.quit = <<Named("Tab")>>

(***************************************************************************)
(* Properties of the UiMode registry and the focus ring                    *)
(***************************************************************************)
targets == get_available_targets(mode)

\* C4: every UiMode variant, Login, SignUp, ResetPassword and LoadCloudSave
\* included, has a non-empty list of Focus values as its available targets.
C4_TargetsNonEmpty ==
    /\ Len(targets) >= 1
    /\ \A i \in 1..Len(targets) : targets[i] \in Focus

C4_Witness ==
    /\ mode = "LoadCloudSave"
    /\ fop = "next"
    /\ focus = targets[1]

\* C5: from the focus at index i of the mode's n targets (indices from 0),
\* Focus::next gives the target at index (i+1) mod n and Focus::prev the target
\* at index (i-1) mod n; in ConfigMenu from SubmitButton next is ExtraFocus and
\* prev is ConfigTable, and in Zen from Body next is Body.
C5_RingStep ==
    LET n == Len(targets) IN
    /\ \A i \in 0..(n - 1) :
        targets[i + 1] = from =>
            /\ fop = "next" => focus = targets[((i + 1) % n) + 1]
            /\ fop = "prev" => focus = targets[((i + n - 1) % n) + 1]
    /\ (mode = "ConfigMenu" /\ from = "SubmitButton" /\ fop = "next") =>
            focus = "ExtraFocus"
    /\ (mode = "ConfigMenu" /\ from = "SubmitButton" /\ fop = "prev") =>
            focus = "ConfigTable"
    /\ (mode = "Zen" /\ from = "Body" /\ fop = "next") => focus = "Body"

C5_Witness ==
    /\ mode = "ConfigMenu"
    /\ from = "ExtraFocus"
    /\ fop = "next"
    /\ focus = "ConfigTable"

\* C6: with n the number of targets of the mode, n steps of Focus::next in a
\* row from a target f end at f, and so do n steps of Focus::prev.
C6_FullTurnReturns ==
    (fop \in {"next", "prev"} /\ count = Len(targets) /\ Contains(targets, origin)) =>
        focus = origin

C6_Witness ==
    /\ mode = "ResetPassword"
    /\ fop = "prev"
    /\ count = Len(targets)
    /\ origin = "PasswordField"
    /\ focus = origin

\* C7: from a focus that is not among the mode's targets, Focus::next and
\* Focus::prev both give the first target, and neither fails.
C7_StrayFocusLandsOnFirst ==
    (fop \in {"next", "prev"} /\ ~Contains(targets, from)) =>
        /\ focus = targets[1]
        /\ focus # Panic

C7_Witness ==
    /\ mode = "NewCard"
    /\ from = "NoFocus"
    /\ fop = "prev"
    /\ focus = "CardName"
\* C23: with the mode fixed and the focus starting anywhere, the focus is one of
\* the mode's targets after the first Focus::next or Focus::prev step and after
\* every later one.
C23_FocusStaysInTargets ==
    fop \in {"next", "prev"} => Contains(targets, focus)

C23_Witness ==
    /\ mode = "SignUp"
    /\ origin = "NoFocus"
    /\ fop = "prev"
    /\ count = 3
    /\ focus = "ExtraFocus"

\* C24: on a target f of the mode, Focus::prev undoes Focus::next and
\* Focus::next undoes Focus::prev: a step one way followed by a step the other
\* way, the mode unchanged, ends at f.
C24_PrevUndoesNext ==
    [][(Contains(targets, from) /\ mode' = mode) =>
            /\ (fop = "next" /\ fop' = "prev") => focus' = from
            /\ (fop = "prev" /\ fop' = "next") => focus' = from]_vars

C24_Witness ==
    /\ mode = "NewCard"
    /\ fprev = "next"
    /\ fop = "prev"
    /\ from = "CardName"
    /\ focus = "SubmitButton"

\* The focus after k steps of Focus::next from f.
RECURSIVE NextTimes(_, _, _)
NextTimes(f, tabs, k) ==
    IF k = 0 THEN f ELSE Focus_next(NextTimes(f, tabs, k - 1), tabs)

\* C25: the targets of a mode hold no Focus twice, and Focus::next applied again
\* and again from the first target visits every target of the mode.
C25_NextVisitsEveryTarget ==
    /\ NoRepeat(targets)
    /\ \A i \in 1..Len(targets) :
        \E k \in 0..(Len(targets) - 1) : NextTimes(targets[1], targets, k) = targets[i]
    /\ (fop = "next" /\ origin = targets[1] /\ count < Len(targets)) =>
            focus = targets[count + 1]

C25_Witness ==
    /\ mode = "ResetPassword"
    /\ fop = "next"
    /\ origin = "Title"
    /\ count = 7
    /\ focus = "SubmitButton"

(***************************************************************************)
(* Properties of the pure functions                                        *)
(***************************************************************************)
\* C8: for every UiMode variant m, UiMode::from_string applied to the display
\* string of m returns Some(m).
C8_DisplayRoundTrip ==
    pfn = "UiMode::from_string(to_string)" => pout = Some(pin[2])

\* The Key values.
KeyValues ==
    {Named(n) : n \in {"Enter", "Tab", "Backspace", "Esc", "Space", "Left", "Right",
                       "Up", "Down", "Ins", "Delete", "Home", "End", "PageUp",
                       "PageDown", "F0", "F1", "F2", "F3", "F4", "F5", "F6", "F7",
                       "F8", "F9", "F10", "F11", "F12", "BackTab", "ShiftUp",
                       "ShiftDown", "ShiftLeft", "ShiftRight", "Unknown"}}
    \cup {<<t, c>> : t \in {"Char", "Ctrl", "Alt"}, c \in {"q", "c", " ", "a"}}

\* C9: Key::from(KeyEvent) returns a Key value for every key event, the function
\* keys F(n) for every n in 0..255 included, and never panics.
C9_KeyFromEventTotal ==
    pfn = "Key::from(KeyEvent)" => (pout # PanicKey /\ pout \in KeyValues)

\* A well-formed structured key encoding: an object whose first entry among
\* Char, Alt and Ctrl is a string of at least one character.
WellFormed(m) ==
    LET tag == IF "Char" \in DOMAIN m THEN "Char"
               ELSE IF "Alt" \in DOMAIN m THEN "Alt" ELSE "Ctrl"
    IN  /\ tag \in DOMAIN m
        /\ m[tag][1] = "String"
        /\ Len(m[tag][2]) >= 1

\* C10: decoding a structured key encoding never aborts, and every malformed
\* encoding decodes to Key::Unknown.
C10_MalformedDecodesToUnknown ==
    pfn = "Key::from(Map)" =>
        /\ pout # PanicKey
        /\ ~WellFormed(pin[2]) => pout = Named("Unknown")
\* The last key event handed to Key::from.
event == pin[2]
Pressed == pfn = "Key::from(KeyEvent)" /\ event.kind = "Press"
Arrows == {"Left", "Right", "Up", "Down"}

\* C14: a press of an arrow key whose modifiers include Shift gives the matching
\* Shift-arrow variant, and a press of an arrow key without Shift gives the plain
\* arrow variant.
C14_ShiftArrows ==
    (Pressed /\ event.code[1] \in Arrows) =>
        IF "SHIFT" \in event.modifiers
        THEN pout = Named("Shift" \o event.code[1])
        ELSE pout = Named(event.code[1])

\* C15: a press of a character key c gives Ctrl(c) if the Control modifier is
\* set, otherwise Alt(c) if the Alt modifier is set, otherwise Char(c).
C15_CharModifiers ==
    (Pressed /\ event.code[1] = "Char") =>
        LET c == event.code[2] IN
        IF "CONTROL" \in event.modifiers THEN pout = Ctrl(c)
        ELSE IF "ALT" \in event.modifiers THEN pout = Alt(c)
        ELSE pout = Char(c)

\* The Key variant of each named non-character key code.
NamedVariant(code) ==
    IF code[1] = "F" THEN Named(<<"F0", "F1", "F2", "F3", "F4", "F5", "F6", "F7",
                                  "F8", "F9", "F10", "F11", "F12">>[code[2] + 1])
    ELSE IF code[1] = "Insert" THEN Named("Ins")
    ELSE Named(code[1])

IsNamedCode(code) ==
    \/ code[1] \in {"Enter", "Tab", "Esc", "Backspace", "Insert", "Delete", "Home",
                    "End", "PageUp", "PageDown"}
    \/ code[1] = "F" /\ code[2] <= 12

C17_DisplayInjective ==
    (pfn = "Key::to_string" /\ pin[2] # pin[3]
        /\ pin[2] # Named("Unknown") /\ pin[3] # Named("Unknown")) =>
        pout[1] # pout[2]
\* C18: for every Focus variant f, parsing the display string of f gives f back:
\* Focus::from_str(f.to_str()) is Ok(f).
C18_FocusRoundTrip ==
    pfn = "Focus::from_str(to_str)" => pout = <<"Ok", pin[2]>>

\* The identifiers of the UiMode variants, as the enum declares them.
ModeIdentifiers ==
    {"Zen", "TitleBody", "BodyHelp", "BodyLog", "TitleBodyHelp", "TitleBodyLog",
     "TitleBodyHelpLog", "BodyHelpLog", "ConfigMenu", "EditKeybindings", "MainMenu",
     "HelpMenu", "LogsOnly", "NewBoard", "NewCard", "LoadSave", "CreateTheme",
     "Login", "SignUp", "ResetPassword", "LoadCloudSave"}

\* C19: from_json_string parses the persisted string of every UiMode variant (its
\* identifier, as serialization writes it) back to that variant, and gives None
\* for a string that is the identifier of no variant.
C19_JsonStringRoundTrip ==
    /\ pfn = "UiMode::from_json_string(serialize)" => pout = Some(pin[2])
    /\ (pfn = "UiMode::from_json_string" /\ pin[2] \notin ModeIdentifiers) =>
            pout = None

\* C20: from_number returns a mode for every u8, and TitleBody for every number
\* that is not a legacy code (0 and 10 to 255).
C20_FromNumberFallback ==
    pfn = "UiMode::from_number" =>
        /\ pout \in ModeIdentifiers
        /\ pin[2] \notin 1..9 => pout = "TitleBody"

C20_Witness ==
    /\ pfn = "UiMode::from_number"
    /\ pin = <<"u8", 255>>
    /\ pout = "TitleBody"

\* C29: from_number maps the codes 1 to 9 to nine pairwise different modes, and
\* for every i from 1 to 8 from_number(i) is the i-th entry of view_modes.
C29_LegacyNumbering ==
    (pfn = "UiMode::from_number" /\ pin[2] \in 1..9) =>
        /\ \A j \in (1..9) \ {pin[2]} : from_number(j) # pout
        /\ pin[2] \in 1..Len(view_modes) => pout = view_modes[pin[2]]

C29_Witness ==
    /\ pfn = "UiMode::from_number"
    /\ pin = <<"u8", 8>>
    /\ pout = "TitleBodyHelpLog"

\* C30: a key event whose kind is not Press, whatever its code and modifiers,
\* normalizes to Key::Unknown, and Key::Unknown resolves to no action under the
\* factory-default table.
C30_ReleaseTriggersNothing ==
    /\ (pfn = "Key::from(KeyEvent)" /\ event.kind # "Press") =>
            pout = Named("Unknown")
    /\ (pfn = "key_to_action(Key::from(KeyEvent))" /\ event.kind # "Press") =>
            pout = <<Named("Unknown"), None>>

C30_Witness ==
    /\ pfn = "key_to_action(Key::from(KeyEvent))"
    /\ event = [code |-> <<"Tab">>, kind |-> "Release", modifiers |-> {}]
    /\ pout = <<Named("Unknown"), None>>
====
